---------------------------- MODULE Spec2Model ----------------------------
(***************************************************************************)
(* Model of unit_test/slam3d/jacobians_slam3d.cpp (g2o).                   *)
(*                                                                         *)
(* The file holds three gtest cases.  Two of them (EdgeSE3Jacobian,        *)
(* EdgePointXYZJacobian) drive evaluateJacobian in a loop over random      *)
(* vertex estimates and measurements, reusing two JacobianWorkspace        *)
(* objects.  The third (dqDRJacobian) compares compute_dq_dR with the      *)
(* auto-differentiated functor RotationMatrix2QuaternionManifold.          *)
(*                                                                         *)
(* The arithmetic of the edges' error functions is not part of the file;   *)
(* Jacobian entries of the edge tests are therefore kept as symbolic       *)
(* terms over the inputs they are computed from.  The quaternion functor   *)
(* is part of the file and is computed exactly, over rationals.            *)
(***************************************************************************)
EXTENDS Integers, Sequences, FiniteSets, TLC

VARIABLES
  test,      \* the gtest case being run
  pc,        \* position inside the test body
  k,         \* loop counter of the test's for loop
  kind,      \* type of the edge e: "SE3" or "PointXYZ"
  est,       \* est[s]: estimate of the vertex in slot s (1: Xi, 2: Xj)
  meas,      \* measurement of the edge
  ws,        \* ws["a"]: jacobianWorkspace, ws["n"]: numericJacobianWorkspace
  bound,     \* buffer the edge's Jacobian maps point to (0: none yet)
  slot,      \* numeric differentiation: vertex being perturbed
  coord,     \* numeric differentiation: tangent coordinate being perturbed
  backup,    \* numeric differentiation: saved estimate of the perturbed vertex
  errP,      \* error evaluated at the +epsilon perturbation
  errM,      \* error evaluated at the -epsilon perturbation
  callNo,    \* number of linearizeOplus calls made so far
  touched,   \* workspaces read or written by the step just taken
  atCall,    \* estimates at the moment the numeric evaluation was entered
  cmp,       \* what the last comparison loop read: pointers and element counts
  first,     \* inputs and blocks of the first completed evaluateJacobian
  mixed,     \* some later evaluateJacobian ran on other inputs than the first
  rotAxisAngle,  \* dqDRJacobian: the sampled rotation, as an integer quaternion
  Re,            \* dqDRJacobian: the rotation matrix
  dq_dR,         \* dqDRJacobian: result of compute_dq_dR
  dq_dR_AD,      \* dqDRJacobian: result of AutoDiff::Differentiate
  call,          \* dqDRJacobian: what the functor's call went through
  maxDifference  \* dqDRJacobian: the compared quantity

edgeState == <<kind, est, meas, ws, bound, slot, coord, backup,
               errP, errM, callNo, touched, atCall, cmp, first, mixed>>

dqState == <<rotAxisAngle, Re, dq_dR, dq_dR_AD, call, maxDifference>>

vars == <<test, pc, k, edgeState, dqState>>

---------------------------------------------------------------------------
(* Bounds of the model *)

\* number of distinct values a random draw can return
NumSamples == 2

\* iterations of a test's for loop that are explored (the tests run 10000)
MaxIter == 3

\* largest component of the integer quaternions the rotations are sampled from
QMax == 4

Samples == 1..NumSamples

Slots == {1, 2}

WsNames == {"a", "n"}

---------------------------------------------------------------------------
(* Edge and vertex dimensions *)

\* EdgeType::Dimension
Dimension(kd) == IF kd = "SE3" THEN 6 ELSE 3

\* EdgeType::VertexXiType::Dimension (s = 1), VertexXjType::Dimension (s = 2)
VertexDimension(kd, s) == IF kd = "SE3" THEN 6 ELSE 3

\* numElems of the comparison loop
NumElems(kd, s) == Dimension(kd) * VertexDimension(kd, s)

Max(a, b) == IF a >= b THEN a ELSE b

---------------------------------------------------------------------------
(* Symbolic values *)

\* v.oplus(delta) with delta = d * epsilon along basis vector c
Oplus(e, c, d) == e \o <<c, d>>

\* an estimate as setEstimate stores it: the drawn value, no perturbation applied
Estimate(b) == <<b>>

\* the edge's error e(vi, vj, z)
ComputeError(ei, ej, z) == <<ei, ej, z>>

\* element idx of the closed-form block of slot s
AnalyticEntry(ei, ej, z, s, idx) == <<"analytic", ei, ej, z, s, idx>>

\* row r of (e(+) - e(-)) / (2 epsilon)
CentralDifference(ep, em, r) == <<"numeric", ep, em, r>>

---------------------------------------------------------------------------
(* JacobianWorkspace *)

\* content of a freshly allocated element
Zero == <<"zero">>

\* a default-constructed workspace; updated, allocated and copied record which
\* operations have been applied to the object: updateSize, allocate after
\* updateSize, assignment from a workspace that was sized and allocated
NewWorkspace ==
  [maxNumVertices |-> 0, maxDimension |-> 0, buf |-> 0,
   data |-> <<>>, stamp |-> <<>>,
   updated |-> FALSE, allocated |-> FALSE, copied |-> FALSE]

\* JacobianWorkspace::updateSize(&e)
UpdateSizeOf(w, kd) ==
  [w EXCEPT !.maxNumVertices = Max(2, w.maxNumVertices),
            !.maxDimension = Max(Max(NumElems(kd, 1), NumElems(kd, 2)), w.maxDimension),
            !.updated = TRUE]

\* JacobianWorkspace::allocate(): one zeroed buffer per vertex slot
AllocateOf(w, id) ==
  IF w.maxNumVertices <= 0 \/ w.maxDimension <= 0 THEN w
  ELSE [w EXCEPT !.buf = id,
                 !.data = [s \in 1..w.maxNumVertices |-> [i \in 1..w.maxDimension |-> Zero]],
                 !.stamp = [s \in 1..w.maxNumVertices |-> [i \in 1..w.maxDimension |-> 0]],
                 !.allocated = w.updated]

\* variant: a shallow assignment, the destination shares the source's buffer
CopyTargetBufShared(dst, src) == src.buf

\* the buffer a copy-assigned workspace ends up owning
CopyTargetBuf(dst, src) == IF dst.buf = 0 THEN src.buf + 1 ELSE dst.buf

\* jacobianWorkspace = numericJacobianWorkspace: the sizes and the contents are
\* copied, the destination keeps storage of its own
CopyAssign(dst, src) ==
  [dst EXCEPT !.maxNumVertices = src.maxNumVertices,
              !.maxDimension = src.maxDimension,
              !.buf = CopyTargetBuf(dst, src),
              !.data = src.data,
              !.stamp = src.stamp,
              !.copied = (src.allocated \/ src.copied)]

\* workspaceForVertex(s): pointer to the start of slot s
WorkspaceForVertex(w, s) == <<w.buf, s>>

\* Stores through the pointer <<p, s>>: elements idxs of slot s of every
\* workspace that owns buffer p are set to val[i], and stamped with call c.
WriteThrough(W, p, s, idxs, val, c) ==
  [n \in WsNames |->
     IF W[n].buf = p /\ p # 0
     THEN [W[n] EXCEPT
             !.data[s] = [i \in DOMAIN @ |-> IF i \in idxs THEN val[i] ELSE @[i]],
             !.stamp[s] = [i \in DOMAIN @ |-> IF i \in idxs THEN c ELSE @[i]]]
     ELSE W[n]]

\* the first n elements of slot s, as the comparison loop reads them
Block(w, s, n) == [i \in 1..n |-> w.data[s][i]]

---------------------------------------------------------------------------
(* Exact arithmetic: a number is <<n, d>> with d > 0, in lowest terms *)

Abs(x) == IF x < 0 THEN -x ELSE x

RECURSIVE GCD(_, _)
GCD(a, b) == IF b = 0 THEN a ELSE GCD(b, a % b)

Rat(n, d) ==
  LET g == GCD(Abs(n), Abs(d))
      sg == IF d < 0 THEN -1 ELSE 1
  IN  <<sg * (n \div g), Abs(d) \div g>>

RInt(n) == <<n, 1>>
RAdd(a, b) == Rat(a[1] * b[2] + b[1] * a[2], a[2] * b[2])
RSub(a, b) == Rat(a[1] * b[2] - b[1] * a[2], a[2] * b[2])
RMul(a, b) == Rat(a[1] * b[1], a[2] * b[2])
RDiv(a, b) == Rat(a[1] * b[2], a[2] * b[1])
RNeg(a) == <<-a[1], a[2]>>
RLess(a, b) == a[1] * b[2] < b[1] * a[2]
RAbs(a) == <<Abs(a[1]), a[2]>>

\* the integer whose square is m (every root the model takes is exact)
ISqrt(m) == CHOOSE r \in 0..m : r * r = m

\* sqrt
RSqrt(a) == <<ISqrt(a[1]), ISqrt(a[2])>>

Half == Rat(1, 2)

---------------------------------------------------------------------------
(* ceres::Jet<double, 9>: a value a and its nine partial derivatives v *)

Params == 0..8

JConst(c) == [a |-> c, v |-> [p \in Params |-> RInt(0)]]

\* the p-th independent variable, with value c
JVar(c, p) == [a |-> c, v |-> [q \in Params |-> IF q = p THEN RInt(1) ELSE RInt(0)]]

JAdd(x, y) == [a |-> RAdd(x.a, y.a), v |-> [p \in Params |-> RAdd(x.v[p], y.v[p])]]
JSub(x, y) == [a |-> RSub(x.a, y.a), v |-> [p \in Params |-> RSub(x.v[p], y.v[p])]]
JMul(x, y) ==
  [a |-> RMul(x.a, y.a),
   v |-> [p \in Params |-> RAdd(RMul(x.a, y.v[p]), RMul(x.v[p], y.a))]]
JDiv(x, y) ==
  [a |-> RDiv(x.a, y.a),
   v |-> [p \in Params |->
            RDiv(RSub(x.v[p], RMul(RDiv(x.a, y.a), y.v[p])), y.a)]]
JSqrt(x) ==
  LET r == RSqrt(x.a)
  IN  [a |-> r, v |-> [p \in Params |-> RDiv(x.v[p], RMul(RInt(2), r))]]

\* comparisons of jets compare the values
JGreater(x, y) == RLess(y.a, x.a)
JLess(x, y) == RLess(x.a, y.a)

---------------------------------------------------------------------------
(* Rotation matrices *)

Idx == 0..2

\* position of R(r, c) in the column-major array Re.data()
Serial(r, c) == c * 3 + r

\* AngleAxisd(angle, axis).toRotationMatrix(), for the rotation whose
\* quaternion is (w, x, y, z) / sqrt(w^2 + x^2 + y^2 + z^2)
ToRotationMatrix(g) ==
  LET w == g[1]  x == g[2]  y == g[3]  z == g[4]
      N == w * w + x * x + y * y + z * z
      M == << <<w*w + x*x - y*y - z*z, 2 * (x*y - w*z), 2 * (x*z + w*y)>>,
              <<2 * (x*y + w*z), w*w - x*x + y*y - z*z, 2 * (y*z - w*x)>>,
              <<2 * (x*z - w*y), 2 * (y*z + w*x), w*w - x*x - y*y + z*z>> >>
  IN  [r \in Idx |-> [c \in Idx |-> Rat(M[r + 1][c + 1], N)]]

\* Eigen::Map of the serialized matrix onto jets: entry (r, c) is the
\* independent variable number Serial(r, c)
MapJets(M) == [r \in Idx |-> [c \in Idx |-> JVar(M[r][c], Serial(r, c))]]

\* R.trace()
Trace(R) == JAdd(JAdd(R[0][0], R[1][1]), R[2][2])

---------------------------------------------------------------------------
(* RotationMatrix2QuaternionManifold::operator() *)

\* the output array before the call: nothing written
NoQuaternion == [l \in Idx |-> [val |-> JConst(RInt(0)), writes |-> 0, flips |-> 0]]

\* quaternion[l] = x
Store(q, l, x) == [q EXCEPT ![l].val = x, ![l].writes = @ + 1]

\* variant: >= in place of >, a tie goes to the higher index
LargestDiagonalLast(R) ==
  LET i1 == IF ~JLess(R[1][1], R[0][0]) THEN 1 ELSE 0
  IN  IF ~JLess(R[2][2], R[i1][i1]) THEN 2 ELSE i1

\* int i = 0; if (R(1,1) > R(0,0)) i = 1; if (R(2,2) > R(i,i)) i = 2;
LargestDiagonal(R) ==
  LET i1 == IF JGreater(R[1][1], R[0][0]) THEN 1 ELSE 0
  IN  IF JGreater(R[2][2], R[i1][i1]) THEN 2 ELSE i1

\* variant: w <= 0 in place of w < 0
NormalizeNonPositive(q, w) ==
  IF ~JGreater(w, JConst(RInt(0)))
  THEN [l \in Idx |-> [q[l] EXCEPT !.val = JMul(@, JConst(RInt(-1))), !.flips = @ + 1]]
  ELSE q

\* variant: no normalization
NormalizeMissing(q, w) == q

\* if (w < 0.) for (l < 3) quaternion[l] *= T(-1)
Normalize(q, w) ==
  IF JLess(w, JConst(RInt(0)))
  THEN [l \in Idx |-> [q[l] EXCEPT !.val = JMul(@, JConst(RInt(-1))), !.flips = @ + 1]]
  ELSE q

\* The call: the record holds the output array and what the call went through.
Rot2Quat(R) ==
  LET tr == Trace(R)
  IN  IF JGreater(tr, JConst(RInt(0)))
      THEN LET t1 == JSqrt(JAdd(tr, JConst(RInt(1))))
               t == JDiv(JConst(Half), t1)
               q1 == Store(NoQuaternion, 0, JMul(JSub(R[2][1], R[1][2]), t))
               q2 == Store(q1, 1, JMul(JSub(R[0][2], R[2][0]), t))
               q3 == Store(q2, 2, JMul(JSub(R[1][0], R[0][1]), t))
           IN  [branch |-> "trace", i |-> -1, j |-> -1, k |-> -1,
                t |-> t.a, w |-> RMul(Half, t1.a), quaternion |-> q3]
      ELSE LET i == LargestDiagonal(R)
               j == (i + 1) % 3
               kk == (j + 1) % 3
               t1 == JSqrt(JAdd(JSub(JSub(R[i][i], R[j][j]), R[kk][kk]), JConst(RInt(1))))
               q1 == Store(NoQuaternion, i, JMul(JConst(Half), t1))
               t == JDiv(JConst(Half), t1)
               q2 == Store(q1, j, JMul(JAdd(R[j][i], R[i][j]), t))
               q3 == Store(q2, kk, JMul(JAdd(R[kk][i], R[i][kk]), t))
               w == JMul(JSub(R[kk][j], R[j][kk]), t)
           IN  [branch |-> "diagonal", i |-> i, j |-> j, k |-> kk,
                t |-> t.a, w |-> w.a, quaternion |-> Normalize(q3, w)]

\* AutoDiff::Differentiate(rot2quat, parameters, 3, value, jacobians):
\* row l of the row-major 3x9 result holds the partial derivatives of output l
Differentiate(M) ==
  LET out == Rot2Quat(MapJets(M)).quaternion
  IN  [l \in Idx |-> [p \in Params |-> out[l].val.v[p]]]

---------------------------------------------------------------------------
(* g2o::internal::compute_dq_dR: the closed-form 3x9 derivative *)

\* 1 at position Serial(r, c), 0 elsewhere
Delta(p, r, c) == IF p = Serial(r, c) THEN RInt(1) ELSE RInt(0)

\* the case trace(R) > 0
DqDRTrace(M) ==
  LET r == RSqrt(RAdd(RAdd(RAdd(M[0][0], M[1][1]), M[2][2]), RInt(1)))
      s == RDiv(Half, r)
      ds == RNeg(RDiv(RInt(1), RMul(RInt(4), RMul(r, RMul(r, r)))))
      plus == <<<<2, 1>>, <<0, 2>>, <<1, 0>>>>
      minus == <<<<1, 2>>, <<2, 0>>, <<0, 1>>>>
      diag(p) == IF p \in {Serial(0, 0), Serial(1, 1), Serial(2, 2)} THEN RInt(1) ELSE RInt(0)
      A(l) == RSub(M[plus[l + 1][1]][plus[l + 1][2]], M[minus[l + 1][1]][minus[l + 1][2]])
  IN  [l \in Idx |-> [p \in Params |->
         RAdd(RMul(s, RSub(Delta(p, plus[l + 1][1], plus[l + 1][2]),
                           Delta(p, minus[l + 1][1], minus[l + 1][2]))),
              RMul(A(l), RMul(ds, diag(p))))]]

\* the case trace(R) <= 0, with i the largest diagonal entry
DqDRDiagonal(M, i) ==
  LET j == (i + 1) % 3
      kk == (j + 1) % 3
      r == RSqrt(RAdd(RSub(RSub(M[i][i], M[j][j]), M[kk][kk]), RInt(1)))
      t == RDiv(Half, r)
      sigma(p) == IF p = Serial(i, i) THEN RInt(1)
                  ELSE IF p \in {Serial(j, j), Serial(kk, kk)} THEN RInt(-1) ELSE RInt(0)
      dt(p) == RNeg(RDiv(sigma(p), RMul(RInt(4), RMul(r, RMul(r, r)))))
      offd(m, p) == RAdd(RMul(t, RAdd(Delta(p, m, i), Delta(p, i, m))),
                         RMul(RAdd(M[m][i], M[i][m]), dt(p)))
      w == RMul(RSub(M[kk][j], M[j][kk]), t)
      sign == IF RLess(w, RInt(0)) THEN RInt(-1) ELSE RInt(1)
  IN  [l \in Idx |-> [p \in Params |->
         RMul(sign, IF l = i THEN RDiv(sigma(p), RMul(RInt(4), r)) ELSE offd(l, p))]]

\* index of the largest diagonal entry, the first one in index order on a tie
DominantIndex(M) ==
  LET i1 == IF RLess(M[0][0], M[1][1]) THEN 1 ELSE 0
  IN  IF RLess(M[i1][i1], M[2][2]) THEN 2 ELSE i1

compute_dq_dR(M) ==
  IF RLess(RInt(0), RAdd(RAdd(M[0][0], M[1][1]), M[2][2]))
  THEN DqDRTrace(M)
  ELSE DqDRDiagonal(M, DominantIndex(M))

\* (dq_dR - dq_dR_AD).array().abs().maxCoeff()
RECURSIVE MaxOf(_)
MaxOf(S) ==
  LET x == CHOOSE y \in S : TRUE
  IN  IF S = {x} THEN x
      ELSE LET m == MaxOf(S \ {x}) IN IF RLess(m, x) THEN x ELSE m

MaxDifference(A, B) ==
  MaxOf({RAbs(RSub(A[l][p], B[l][p])) : l \in Idx, p \in Params})

---------------------------------------------------------------------------
(* The edge tests *)

EdgeTests == {"EdgeSE3Jacobian", "EdgePointXYZJacobian"}

KindOf(t) ==
  IF t = "EdgeSE3Jacobian" THEN "SE3"
  ELSE IF t = "EdgePointXYZJacobian" THEN "PointXYZ" ELSE "none"

NoFirst == [set |-> FALSE]

Tests == EdgeTests \cup {"dqDRJacobian"}

Init ==
  /\ test \in Tests
  /\ pc = IF test \in EdgeTests THEN "updateSize" ELSE "sample"
  /\ k = 0
  /\ kind = KindOf(test)
  /\ est = [s \in Slots |-> Estimate(0)]
  /\ meas = 0
  /\ ws = [n \in WsNames |-> NewWorkspace]
  /\ bound = 0
  /\ slot = 0
  /\ coord = 0
  /\ backup = <<>>
  /\ errP = <<>>
  /\ errM = <<>>
  /\ callNo = 0
  /\ touched = {}
  /\ atCall = est
  /\ cmp = <<>>
  /\ first = NoFirst
  /\ mixed = FALSE
  /\ rotAxisAngle = <<>>
  /\ Re = <<>>
  /\ dq_dR = <<>>
  /\ dq_dR_AD = <<>>
  /\ call = <<>>
  /\ maxDifference = <<>>

\* variant: the test without the call of updateSize
UpdateSizeSkipped ==
  /\ pc = "updateSize"
  /\ pc' = "allocate"
  /\ UNCHANGED <<test, k, edgeState, dqState>>

\* numericJacobianWorkspace.updateSize(&e)
UpdateSize ==
  /\ pc = "updateSize"
  /\ ws' = [ws EXCEPT !["n"] = UpdateSizeOf(@, kind)]
  /\ pc' = "allocate"
  /\ touched' = {}
  /\ UNCHANGED <<test, k, kind, est, meas, bound, slot, coord, backup, errP, errM,
                 callNo, atCall, cmp, first, mixed, dqState>>

\* numericJacobianWorkspace.allocate()
Allocate ==
  /\ pc = "allocate"
  /\ ws' = [ws EXCEPT !["n"] = AllocateOf(@, 1)]
  /\ pc' = "draw"
  /\ touched' = {}
  /\ UNCHANGED <<test, k, kind, est, meas, bound, slot, coord, backup, errP, errM,
                 callNo, atCall, cmp, first, mixed, dqState>>

\* v1.setEstimate(random); v2.setEstimate(random); e.setMeasurement(random)
Draw ==
  /\ pc = "draw"
  /\ k < MaxIter
  /\ \E a \in Samples, b \in Samples, z \in Samples :
       /\ est' = [s \in Slots |-> IF s = 1 THEN Estimate(a) ELSE Estimate(b)]
       /\ meas' = z
  /\ pc' = "analytic"
  /\ touched' = {}
  /\ UNCHANGED <<test, k, kind, ws, bound, slot, coord, backup, errP, errM,
                 callNo, atCall, cmp, first, mixed, dqState>>

\* variant: the edge bound to jacobianWorkspace
BindTargetOther(W) == W["a"].buf

\* the workspace the one-argument linearizeOplus binds the edge to
BindTarget(W) == W["n"].buf

\* the closed-form blocks of both slots
AnalyticBlock(s) ==
  [i \in 1..NumElems(kind, s) |-> AnalyticEntry(est[1], est[2], meas, s, i)]

\* linearizeOplus(numericJacobianWorkspace): maps the edge's Jacobians onto the
\* workspace and calls the edge's closed form
LinearizeOplusWorkspace ==
  /\ pc = "analytic"
  /\ bound' = BindTarget(ws)
  /\ callNo' = callNo + 1
  /\ ws' = WriteThrough(
             WriteThrough(ws, bound', 1, 1..NumElems(kind, 1), AnalyticBlock(1), callNo'),
             bound', 2, 1..NumElems(kind, 2), AnalyticBlock(2), callNo')
  /\ pc' = "copy"
  /\ touched' = {"n"}
  /\ UNCHANGED <<test, k, kind, est, meas, slot, coord, backup, errP, errM,
                 atCall, cmp, first, mixed, dqState>>

\* jacobianWorkspace = numericJacobianWorkspace
CopyWorkspace ==
  /\ pc = "copy"
  /\ ws' = [ws EXCEPT !["a"] = CopyAssign(@, ws["n"])]
  /\ pc' = "numeric"
  /\ touched' = {}
  /\ UNCHANGED <<test, k, kind, est, meas, bound, slot, coord, backup, errP, errM,
                 callNo, atCall, cmp, first, mixed, dqState>>



\* first vertex and coordinate of the numeric differentiation loop
EnterNumeric ==
  /\ pc = "numeric"
  /\ callNo' = callNo + 1
  /\ atCall' = est
  /\ slot' = 1
  /\ coord' = 1
  /\ pc' = "plus"
  /\ touched' = {}
  /\ UNCHANGED <<test, k, kind, est, meas, ws, bound, backup, errP, errM, cmp, first, mixed, dqState>>

\* the error with the vertex in slot s at estimate e
ErrorWith(s, e) ==
  IF s = 1 THEN ComputeError(e, est[2], meas) ELSE ComputeError(est[1], e, meas)

\* perturb the vertex by +epsilon along coord and evaluate the error
PerturbPlus ==
  /\ pc = "plus"
  /\ backup' = est[slot]
  /\ est' = [est EXCEPT ![slot] = Oplus(@, coord, 1)]
  /\ errP' = ErrorWith(slot, est'[slot])
  /\ pc' = "minus"
  /\ touched' = {}
  /\ UNCHANGED <<test, k, kind, meas, ws, bound, slot, coord, errM, callNo,
                 atCall, cmp, first, mixed, dqState>>

\* perturb the vertex by -epsilon along coord and evaluate the error
PerturbMinus ==
  /\ pc = "minus"
  /\ est' = [est EXCEPT ![slot] = Oplus(backup, coord, -1)]
  /\ errM' = ErrorWith(slot, est'[slot])
  /\ pc' = "column"
  /\ touched' = {}
  /\ UNCHANGED <<test, k, kind, meas, ws, bound, slot, coord, backup, errP,
                 callNo, atCall, cmp, first, mixed, dqState>>

\* variant: the last row of the column is left out
ColumnIndicesShort(c, De) == {(c - 1) * De + r : r \in 1..(De - 1)}

\* the element indices of column c of a column-major block with De rows
ColumnIndices(c, De) == {(c - 1) * De + r : r \in 1..De}

\* variant: no restore
RestoredNot(saved, perturbed) == perturbed

\* the estimate the vertex is left with once column coord is filled
Restored(saved, perturbed) == saved

\* central difference into column coord of the block, restore the estimate,
\* move on to the next coordinate, the next vertex, or the comparison
FillColumn ==
  /\ pc = "column"
  /\ LET De == Dimension(kind)
          val == [i \in ColumnIndices(coord, De) |->
                    CentralDifference(errP, errM, i - (coord - 1) * De)]
     IN  ws' = WriteThrough(ws, bound, slot, ColumnIndices(coord, De), val, callNo)
  /\ est' = [est EXCEPT ![slot] = Restored(backup, @)]
  /\ touched' = {n \in WsNames : ws[n].buf = bound}
  /\ IF coord < VertexDimension(kind, slot)
       THEN /\ coord' = coord + 1 /\ slot' = slot /\ pc' = "plus"
       ELSE IF slot = 1
            THEN /\ coord' = 1 /\ slot' = 2 /\ pc' = "plus"
            ELSE /\ coord' = 0 /\ slot' = 0 /\ pc' = "compare"
  /\ UNCHANGED <<test, k, kind, meas, bound, backup, errP, errM, callNo,
                 atCall, cmp, first, mixed, dqState>>

\* what the comparison loop reads for vertex slot s: the two pointers and numElems
Compared(s) ==
  [n |-> WorkspaceForVertex(ws["n"], s), a |-> WorkspaceForVertex(ws["a"], s),
   numElems |-> NumElems(kind, s)]

\* the blocks the comparison loop reads, one pair per slot
BlocksRead ==
  [s \in Slots |->
     [n |-> Block(ws["n"], s, NumElems(kind, s)),
      a |-> Block(ws["a"], s, NumElems(kind, s))]]

\* for (i < 2) { n = ...; a = ...; for (j < numElems) EXPECT_NEAR(n[j], a[j]) }
Compare ==
  /\ pc = "compare"
  /\ cmp' = [s \in Slots |-> Compared(s)]
  /\ first' = IF first.set THEN first
              ELSE [set |-> TRUE, kind |-> kind, in |-> <<est[1], est[2], meas>>,
                    blocks |-> BlocksRead]
  /\ mixed' = (mixed \/ (first.set /\ first.in # <<est[1], est[2], meas>>))
  /\ touched' = {"a", "n"}
  /\ k' = k + 1
  /\ pc' = "draw"
  /\ UNCHANGED <<test, kind, est, meas, ws, bound, slot, coord, backup, errP, errM,
                 callNo, atCall, dqState>>

---------------------------------------------------------------------------
(* TEST(Slam3D, dqDRJacobian) *)

\* the integer quaternions of square norm: their rotation matrices are rational
\* and every square root the functor takes of them is exact
Quaternions ==
  {g \in (-QMax..QMax) \X (-QMax..QMax) \X (-QMax..QMax) \X (-QMax..QMax) :
     LET N == g[1] * g[1] + g[2] * g[2] + g[3] * g[3] + g[4] * g[4]
     IN  N > 0 /\ \E r \in 1..(2 * QMax) : r * r = N}

\* what the call of the functor went through, without the derivative parts
CallOf(M) ==
  LET c == Rot2Quat(MapJets(M))
  IN  [branch |-> c.branch, i |-> c.i, j |-> c.j, k |-> c.k, t |-> c.t, w |-> c.w,
       value |-> [l \in Idx |-> c.quaternion[l].val.a],
       writes |-> [l \in Idx |-> c.quaternion[l].writes],
       flips |-> [l \in Idx |-> c.quaternion[l].flips]]

\* rotAxisAngle = Random() + Random(); Re = AngleAxisd(...).toRotationMatrix()
SampleRotation ==
  /\ test = "dqDRJacobian"
  /\ pc = "sample"
  /\ k < MaxIter
  /\ \E g \in Quaternions :
       /\ rotAxisAngle' = g
       /\ Re' = ToRotationMatrix(g)
  /\ pc' = "closedForm"
  /\ UNCHANGED <<test, k, edgeState, dq_dR, dq_dR_AD, call, maxDifference>>

\* g2o::internal::compute_dq_dR(dq_dR, Re(0,0), Re(1,0), ..., Re(2,2))
ComputeDqDR ==
  /\ pc = "closedForm"
  /\ dq_dR' = compute_dq_dR(Re)
  /\ pc' = "autodiff"
  /\ UNCHANGED <<test, k, edgeState, rotAxisAngle, Re, dq_dR_AD, call, maxDifference>>

\* AutoDiff_Dq_DR::Differentiate(rot2quat, parameters, 3, value, jacobians)
AutoDiff ==
  /\ pc = "autodiff"
  /\ dq_dR_AD' = Differentiate(Re)
  /\ call' = CallOf(Re)
  /\ pc' = "expect"
  /\ UNCHANGED <<test, k, edgeState, rotAxisAngle, Re, dq_dR, maxDifference>>

\* maxDifference = (dq_dR - dq_dR_AD).array().abs().maxCoeff(); EXPECT_NEAR
ExpectNear ==
  /\ pc = "expect"
  /\ maxDifference' = MaxDifference(dq_dR, dq_dR_AD)
  /\ pc' = "endIteration"
  /\ UNCHANGED <<test, k, edgeState, rotAxisAngle, Re, dq_dR, dq_dR_AD, call>>

\* end of the loop body: its locals go out of scope, ++k
EndIteration ==
  /\ pc = "endIteration"
  /\ rotAxisAngle' = <<>>
  /\ Re' = <<>>
  /\ dq_dR' = <<>>
  /\ dq_dR_AD' = <<>>
  /\ call' = <<>>
  /\ maxDifference' = <<>>
  /\ k' = k + 1
  /\ pc' = "sample"
  /\ UNCHANGED <<test, edgeState>>

---------------------------------------------------------------------------

Next ==
  \/ UpdateSize
  \/ Allocate
  \/ Draw
  \/ LinearizeOplusWorkspace
  \/ CopyWorkspace
  \/ EnterNumeric
  \/ PerturbPlus
  \/ PerturbMinus
  \/ FillColumn
  \/ Compare
  \/ SampleRotation
  \/ ComputeDqDR
  \/ AutoDiff
  \/ ExpectNear
  \/ EndIteration

Spec == Init /\ [][Next]_vars

---------------------------------------------------------------------------
(* Properties *)

\* the sizes a workspace was given
Sizing(w) == <<w.maxNumVertices, w.maxDimension>>

\* w holds two slots of backing storage, each large enough for the largest
\* block of the edge
SizedFor(w) ==
  /\ w.maxNumVertices >= 2
  /\ w.maxDimension >= Max(NumElems(kind, 1), NumElems(kind, 2))
  /\ w.buf # 0
  /\ Len(w.data) = w.maxNumVertices
  /\ \A s \in Slots : Len(w.data[s]) = w.maxDimension

\* the inputs of the evaluation in progress or just completed
Inputs == <<est[1], est[2], meas>>

NumericPhase == {"plus", "minus", "column", "compare"}

C4_UpdateSizeAllocateFirst ==
  \A n \in touched : ws[n].updated /\ ws[n].allocated /\ SizedFor(ws[n])

\* every workspace touched is sized and backed, through updateSize and allocate
\* of its own or through assignment from a workspace that had them
C4_Prepared ==
  \A n \in touched : SizedFor(ws[n]) /\ (ws[n].allocated \/ ws[n].copied)

\* a workspace that owns storage keeps its sizing
C4_SizingStable ==
  \A n \in WsNames : ws[n].buf # 0 => Sizing(ws'[n]) = Sizing(ws[n])

\* C4, amended: a workspace is written or read only when it is sized for the
\* edge and backed by storage, obtained by updateSize and allocate or by
\* assignment from a workspace so prepared; and once a workspace owns storage
\* its sizing never changes.
C4_PreparedAndStable == []C4_Prepared /\ [][C4_SizingStable]_vars

\* the comparison of a repeated iteration has read both workspaces, of which
\* jacobianWorkspace never had updateSize or allocate applied
C4_Witness ==
  /\ touched = {"a", "n"}
  /\ k >= 2
  /\ ~ws["a"].updated
  /\ ws["a"].copied

C10_DistinctStorage ==
  /\ pc = "numeric" =>
       /\ ws["a"].data = ws["n"].data
       /\ Sizing(ws["a"]) = Sizing(ws["n"])
  /\ pc \in NumericPhase =>
       /\ bound = ws["n"].buf
       /\ touched \subseteq {"n"}
       /\ \A s \in Slots : \A i \in 1..NumElems(kind, s) :
            /\ ws["a"].data[s][i] = AnalyticEntry(atCall[1], atCall[2], meas, s, i)
            /\ ws["a"].stamp[s][i] = callNo - 1
  /\ pc = "compare" =>
       \A s \in Slots :
         /\ WorkspaceForVertex(ws["n"], s) # WorkspaceForVertex(ws["a"], s)
         /\ \A i \in 1..NumElems(kind, s) :
              /\ ws["n"].data[s][i][1] = "numeric"
              /\ ws["n"].stamp[s][i] = callNo
  /\ cmp # <<>> => \A s \in Slots : cmp[s].n # cmp[s].a

\* the comparison of a repeated iteration is about to run
C10_Witness == pc = "compare" /\ k >= 1 /\ cmp # <<>>

---------------------------------------------------------------------------

\* trace of the sampled rotation matrix
TraceRe == RAdd(RAdd(Re[0][0], Re[1][1]), Re[2][2])

AfterCall == {"expect", "endIteration"}

\* C8: the functor takes the branch on the diagonal exactly when trace(R) <= 0;
\* then i is the largest diagonal entry, the lowest index on a tie, (i, j, k)
\* is a cyclic permutation of (0, 1, 2) and each component is stored once;
\* otherwise no index is selected and the three components are stored once
\* each, from the antisymmetric part of R.
C8_IndexSelection ==
  pc \in AfterCall =>
    /\ (call.branch = "diagonal") <=> ~RLess(RInt(0), TraceRe)
    /\ call.branch = "diagonal" =>
         /\ \A m \in Idx : ~RLess(Re[call.i][call.i], Re[m][m])
         /\ \A m \in Idx : m < call.i => RLess(Re[m][m], Re[call.i][call.i])
         /\ call.j = (call.i + 1) % 3
         /\ call.k = (call.j + 1) % 3
         /\ {call.i, call.j, call.k} = Idx
         /\ \A l \in Idx : call.writes[l] = 1
    /\ call.branch = "trace" =>
         /\ call.i = -1
         /\ \A l \in Idx : call.writes[l] = 1
         /\ call.value[0] = RMul(RSub(Re[2][1], Re[1][2]), call.t)
         /\ call.value[1] = RMul(RSub(Re[0][2], Re[2][0]), call.t)
         /\ call.value[2] = RMul(RSub(Re[1][0], Re[0][1]), call.t)

\* a tie between the two largest diagonal entries, resolved to index 0
C8_Witness ==
  /\ pc = "expect"
  /\ call.branch = "diagonal"
  /\ call.i = 0
  /\ Re[0][0] = Re[1][1]
  /\ RLess(Re[2][2], Re[0][0])

\* C9: on the diagonal branch the three components are negated, all of them,
\* exactly when w = (R(k,j) - R(j,k)) * t is negative; on the trace branch none
\* is and the real part is positive; the value returned is the imaginary part
\* of the representative of the rotation whose real part is not negative.
C9_NonNegativeRealPart ==
  pc \in AfterCall =>
    /\ call.branch = "diagonal" =>
         /\ call.w = RMul(RSub(Re[call.k][call.j], Re[call.j][call.k]), call.t)
         /\ RLess(call.w, RInt(0)) => \A l \in Idx : call.flips[l] = 1
         /\ ~RLess(call.w, RInt(0)) => \A l \in Idx : call.flips[l] = 0
    /\ call.branch = "trace" =>
         /\ \A l \in Idx : call.flips[l] = 0
         /\ RLess(RInt(0), call.w)
    /\ LET g == rotAxisAngle
           n == ISqrt(g[1] * g[1] + g[2] * g[2] + g[3] * g[3] + g[4] * g[4])
       IN  \E sg \in {1, -1} :
             /\ sg * g[1] >= 0
             /\ \A l \in Idx : call.value[l] = Rat(sg * g[l + 2], n)

\* a call on the diagonal branch that negated the three components
C9_Witness ==
  /\ pc = "expect"
  /\ call.branch = "diagonal"
  /\ RLess(call.w, RInt(0))
  /\ \A l \in Idx : call.flips[l] = 1

\* 1 / tolerance of dqDRJacobian's EXPECT_NEAR
ToleranceInverse == 10000000

\* 0 <= x <= 1e-7
WithinTolerance(x) == x[1] >= 0 /\ x[1] <= x[2] \div ToleranceInverse

\* the rotation lies on a switching boundary of the functor
OnBoundary ==
  \/ TraceRe = RInt(0)
  \/ /\ call.branch = "diagonal"
     /\ \/ call.w = RInt(0)
        \/ \E m \in Idx : m # call.i /\ Re[m][m] = Re[call.i][call.i]

\* C2: away from the switching boundaries every entry of compute_dq_dR is
\* within 1e-7 of the entry AutoDiff derives from the functor.
C2_ClosedFormMatchesAutoDiff ==
  (pc = "endIteration" /\ ~OnBoundary) =>
    /\ WithinTolerance(maxDifference)
    /\ \A l \in Idx : \A p \in Params :
         WithinTolerance(RAbs(RSub(dq_dR[l][p], dq_dR_AD[l][p])))

\* a compared rotation off the boundaries whose call took the diagonal branch
\* and negated the quaternion
C2_Witness ==
  /\ pc = "endIteration"
  /\ ~OnBoundary
  /\ call.branch = "diagonal"
  /\ call.flips[0] = 1
  /\ dq_dR # <<>>

============================================================================
